---- MODULE Spec2Model ----
(***************************************************************************)
(* Photo gallery backend: the store-derived implementation (src/app.py),   *)
(* which keeps the collection registry and every photo's metadata in the   *)
(* remote media store, and the relational implementation                   *)
(* (src/src/routes, src/src/models), which keeps collections and photos in *)
(* a database and uses the media store for the blobs only.                 *)
(*                                                                         *)
(* A deployment runs one of the two; impl says which.  Python strings are  *)
(* sequences of one-character strings, so that strip(), lower() and str()  *)
(* are computed.  Mutating requests are handled one at a time; a read may  *)
(* fall between any two steps, so what a read may observe is stated as an  *)
(* invariant over every reachable state.                                   *)
(*                                                                         *)
(* The media store's add_context is modelled by the contract its callers   *)
(* state (app.py lines 246 and 413): the context passed becomes the        *)
(* photo's context, so a key left out of it is removed.                    *)
(***************************************************************************)
EXTENDS Integers, Sequences, FiniteSets, TLC

VARIABLES
    impl,        \* "store" (app.py) or "db" (routes/*.py): the deployed implementation
    registry,    \* store: the collections_registry raw object, a list of collections
    photos,      \* store: the image resources of the media store, in list order
    nextPid,     \* the media store's next fresh public id
    collections, \* db: the committed rows of table collections, id -> row
    dbPhotos,    \* db: the committed rows of table photos, id -> row
    blobs,       \* db: public ids of the objects held by the media store
    nextCollId,  \* db: next primary key of table collections
    nextPhotoId, \* db: next primary key of table photos
    sess,        \* db: the rows as the open session of delete_collection sees them
    pc,          \* position of the delete_collection request in progress, or "idle"
    del,         \* local variables of the current (or last) delete_collection request
    resp,        \* the last request and its response
    scenario     \* progress of the end-to-end scenario of the specification, section 8

vars == <<impl, registry, photos, nextPid, collections, dbPhotos, blobs,
          nextCollId, nextPhotoId, sess, pc, del, resp, scenario>>

storeVars == <<registry, photos>>
dbVars == <<collections, dbPhotos, blobs, nextCollId, nextPhotoId, sess>>

----------------------------------------------------------------------------
(* Bounds of the model. *)

MaxColls == 2
MaxPhotos == 2

(* The collection_id column is nullable; ids start at 1, and the handlers *)
(* treat every falsy collection_id (None, 0, '') as "no collection".      *)
NULL == 0

EMPTY == <<>>

----------------------------------------------------------------------------
(* Strings *)

IsSpace(c) == c = " "

RECURSIVE LStrip(_)
LStrip(s) == IF s # EMPTY /\ IsSpace(Head(s)) THEN LStrip(Tail(s)) ELSE s

RECURSIVE RStrip(_)
RStrip(s) ==
    IF s # EMPTY /\ IsSpace(s[Len(s)]) THEN RStrip(SubSeq(s, 1, Len(s) - 1)) ELSE s

Strip(s) == RStrip(LStrip(s))

LowerChar(c) == CASE c = "A" -> "a" [] c = "B" -> "b" [] OTHER -> c

Lower(s) == [i \in 1..Len(s) |-> LowerChar(s[i])]

Digit(d) ==
    CASE d = 0 -> "0" [] d = 1 -> "1" [] d = 2 -> "2" [] d = 3 -> "3" [] d = 4 -> "4"
      [] d = 5 -> "5" [] d = 6 -> "6" [] d = 7 -> "7" [] d = 8 -> "8" [] d = 9 -> "9"

RECURSIVE Str(_)
Str(n) == IF n < 10 THEN <<Digit(n)>> ELSE Str(n \div 10) \o <<Digit(n % 10)>>

(* dict.get(key, default) *)
Get(d, k, default) == IF k \in DOMAIN d THEN d[k] ELSE default

(* {k: v for k, v in context_data.items() if v} *)
RemoveEmpty(d) == [k \in {x \in DOMAIN d : d[x] # EMPTY} |-> d[k]]

Range(s) == {s[i] : i \in 1..Len(s)}

----------------------------------------------------------------------------
(* Request inputs *)

RawNames == {<<" ">>, <<"A">>, <<"a", " ">>, <<"B">>}
MetaInputs == {[title |-> EMPTY, description |-> EMPTY],
               [title |-> <<"t">>, description |-> <<"d">>]}
StoreCollInputs ==
    {[id |-> NULL, name |-> EMPTY], [id |-> 1, name |-> EMPTY]}
    \cup {[id |-> c, name |-> <<"A">>] : c \in 1..MaxColls}
FileName == <<"f">>
CollIdInputs == 0..MaxColls
FileLists == {<<>>, <<EMPTY>>, <<FileName>>, <<FileName, FileName>>}
FormValue(c) == IF c = NULL THEN EMPTY ELSE Str(c)
MetaLists == {[titles |-> <<>>, descriptions |-> <<>>],
              [titles |-> << <<"t">> >>, descriptions |-> << <<"d">> >>]}
PhotoIds == 1..MaxPhotos
IndexLists == {<<>>, <<0>>, <<1, -1>>, <<MaxPhotos>>}
BulkOutcomes(n) == [1..n -> {"ok", "list", "set"}]

(* Outcomes of the remote calls of one request: TRUE, the call succeeds. *)
Outcomes(n) == [1..n -> BOOLEAN]

Response(op, status, arg, out) == [op |-> op, status |-> status, arg |-> arg, out |-> out]

NoDelete == [id |-> NULL, retry |-> FALSE, colls |-> <<>>, todo |-> <<>>, saved |-> FALSE]

----------------------------------------------------------------------------
(* The end-to-end scenario of the specification, section 8: create a       *)
(* collection, upload 2 photos assigned to it, delete one of them, delete  *)
(* the collection.  scenario.step counts the requests of the scenario      *)
(* answered with success so far, from the initial state on; any other      *)
(* answered request ends the scenario (step -1).                           *)

Success(r) == r.status \in {200, 201}

CollRef(c) == IF impl = "store" THEN Str(c) ELSE c

ScenarioStep(sc, r) ==
    IF r.status = 0 THEN sc
    ELSE IF sc.step = 0 /\ r.op = "create_collection" /\ Success(r)
    THEN [step |-> 1, c |-> r.out, deleted |-> NULL]
    ELSE IF sc.step = 1 /\ r.op = "upload_photos" /\ Success(r)
            /\ r.out = 2 /\ r.arg = CollRef(sc.c)
    THEN [sc EXCEPT !.step = 2]
    ELSE IF sc.step = 2 /\ r.op = "delete_photo" /\ Success(r)
    THEN [sc EXCEPT !.step = 3, !.deleted = r.arg]
    ELSE IF sc.step = 3 /\ r.op = "delete_collection" /\ Success(r) /\ r.arg = sc.c
    THEN [sc EXCEPT !.step = 4]
    ELSE [step |-> -1, c |-> NULL, deleted |-> NULL]

Track == scenario' = ScenarioStep(scenario, resp')

----------------------------------------------------------------------------
(* The media store as src/app.py uses it *)

PublicId(n) == <<"p">> \o Str(n)

SecureUrl(pid) == <<"u">> \o pid

PublicIds == {PublicId(n) : n \in 1..MaxPhotos}

(* cloudinary.uploader.upload(file, public_id, context) *)
StoreUpload(ps, pid, context) ==
    Append(ps, [public_id |-> pid, secure_url |-> SecureUrl(pid), context |-> context])

(* cloudinary.uploader.add_context(context_data, public_ids=[pid]) *)
AddContext(ps, pid, context) ==
    [i \in 1..Len(ps) |->
        IF ps[i].public_id = pid THEN [ps[i] EXCEPT !.context = context] ELSE ps[i]]

(* cloudinary.uploader.destroy(pid) *)
Destroy(ps, pid) == SelectSeq(ps, LAMBDA r : r.public_id # pid)

(* get_photos_from_cloudinary: the photo list built from the resources *)
PhotoOf(r) ==
    [id |-> r.public_id,
     url |-> r.secure_url,
     title |-> Get(r.context, "title", r.public_id),
     description |-> Get(r.context, "description", EMPTY),
     collection_id |-> Get(r.context, "collection_id", EMPTY),
     collection_name |-> Get(r.context, "collection_name", EMPTY)]

GetPhotosFromCloudinary(ps) == [i \in 1..Len(ps) |-> PhotoOf(ps[i])]

----------------------------------------------------------------------------
(* src/app.py: the store-derived implementation *)

(* get_collections, line 160: the photo count of one collection *)
PhotoCount(view, collection) ==
    Len(SelectSeq(view, LAMBDA p : p.collection_id = Str(collection.id)))

(* get_collections: GET /api/collections.  loadedC, loadedP: whether the   *)
(* registry and the photo list could be read (each reads as empty when     *)
(* not).                                                                   *)
StoreGetCollections(reg, ps, loadedC, loadedP) ==
    LET colls == IF loadedC THEN reg ELSE <<>>
        view == IF loadedP THEN GetPhotosFromCloudinary(ps) ELSE <<>>
    IN [i \in 1..Len(colls) |-> [colls[i] EXCEPT !.photo_count = PhotoCount(view, colls[i])]]

(* get_photos: GET /api/photos.  loaded: whether the photo list could be   *)
(* read.                                                                   *)
StoreGetPhotos(ps, loaded) == IF loaded THEN GetPhotosFromCloudinary(ps) ELSE <<>>

(* create_collection, line 186 *)
StoreNameExists(colls, name) ==
    \E i \in 1..Len(colls) : Lower(colls[i].name) = Lower(name)

(* create_collection, lines 193-198 *)
StoreNewCollection(colls, name) ==
    [id |-> Len(colls) + 1, name |-> name, photo_count |-> 0]

(* create_collection: POST /api/collections.  loaded, saved: whether the   *)
(* registry could be read (it reads as empty when not) and written.  The   *)
(* server handles requests in threads and the handlers take no lock, so    *)
(* the request may be served while a delete_collection is in progress: the *)
(* interleaving kept here is a create that reads the registry after the    *)
(* delete's loop and before the delete's save.                             *)
StoreCreateCollection(raw, loaded) ==
    LET name == Strip(raw)
        colls == IF loaded THEN registry ELSE <<>>
        new == StoreNewCollection(colls, name)
    IN
    /\ impl = "store"
    /\ pc = "idle" \/ (pc = "unassign" /\ del.todo = <<>> /\ loaded)
    /\ IF name = EMPTY
       THEN /\ resp' = Response("create_collection", 400, raw, NULL)
            /\ UNCHANGED registry
       ELSE IF StoreNameExists(colls, name)
       THEN /\ resp' = Response("create_collection", 400, raw, NULL)
            /\ UNCHANGED registry
       ELSE \E saved \in BOOLEAN : IF saved
       THEN /\ Len(colls) < MaxColls
            /\ registry' = Append(colls, new)
            /\ resp' = Response("create_collection", 200, raw, new.id)
       ELSE /\ resp' = Response("create_collection", 500, raw, NULL)
            /\ UNCHANGED registry
    /\ UNCHANGED <<impl, photos, nextPid, dbVars, pc, del>>
    /\ Track

(* delete_collection, lines 228-233: the list without the first collection *)
(* whose id is collection_id                                               *)
PopCollection(colls, collection_id) ==
    LET i == CHOOSE k \in 1..Len(colls) :
                 /\ colls[k].id = collection_id
                 /\ \A j \in 1..(k - 1) : colls[j].id # collection_id
    IN SubSeq(colls, 1, i - 1) \o SubSeq(colls, i + 1, Len(colls))

(* delete_collection, lines 247-253: the context written to a photo that   *)
(* is taken out of the collection                                          *)
UnassignContext(photo) ==
    RemoveEmpty([title |-> photo.title, description |-> photo.description])

(* delete_collection, lines 225-242: DELETE /api/collections/<id>, up to   *)
(* the photo list.  loadedC, loadedP: whether the registry and the photo   *)
(* list could be read (each reads as empty when not).                      *)
StoreDeleteBegin(collection_id, loadedC, loadedP) ==
    LET colls == IF loadedC THEN registry ELSE <<>>
        view == IF loadedP THEN GetPhotosFromCloudinary(photos) ELSE <<>>
        rerun == /\ resp.op = "delete_collection"
                 /\ resp.status = -1
                 /\ resp.arg = collection_id
                 /\ resp.out = "unassign"
    IN
    /\ impl = "store" /\ pc = "idle"
    /\ IF \E i \in 1..Len(colls) : colls[i].id = collection_id
       THEN /\ del' = [id |-> collection_id, retry |-> rerun,
                       colls |-> PopCollection(colls, collection_id),
                       todo |-> view, saved |-> FALSE]
            /\ pc' = "unassign"
            /\ resp' = Response("delete_collection", 0, collection_id, NULL)
       ELSE /\ resp' = Response("delete_collection", 404, collection_id, NULL)
            /\ UNCHANGED <<pc, del>>
    /\ UNCHANGED <<impl, registry, photos, nextPid, dbVars>>
    /\ Track

(* delete_collection, lines 243-261: one iteration of the loop over the    *)
(* photos.  ok: whether add_context succeeds; its exception is logged.     *)
StoreDeleteUnassign(ok) ==
    /\ impl = "store" /\ pc = "unassign" /\ del.todo # <<>>
    /\ LET photo == Head(del.todo) IN
       IF photo.collection_id = Str(del.id) /\ ok
       THEN photos' = AddContext(photos, photo.id, UnassignContext(photo))
       ELSE UNCHANGED photos
    /\ del' = [del EXCEPT !.todo = Tail(del.todo)]
    /\ UNCHANGED <<impl, registry, nextPid, dbVars, pc, resp>>
    /\ Track

(* delete_collection, line 264: save_collections_to_cloudinary(collections) *)
StoreDeleteSave(ok) ==
    /\ impl = "store" /\ pc = "unassign" /\ del.todo = <<>>
    /\ IF ok THEN registry' = del.colls ELSE UNCHANGED registry
    /\ del' = [del EXCEPT !.saved = ok, !.colls = <<>>]
    /\ pc' = "respond"
    /\ UNCHANGED <<impl, photos, nextPid, dbVars, resp>>
    /\ Track

(* delete_collection, lines 264-273: the response *)
StoreDeleteRespond ==
    /\ impl = "store" /\ pc = "respond"
    /\ resp' = Response("delete_collection", IF del.saved THEN 200 ELSE 500, del.id, NULL)
    /\ pc' = "idle"
    /\ del' = NoDelete
    /\ UNCHANGED <<impl, storeVars, nextPid, dbVars>>
    /\ Track

(* The process stops in the middle of delete_collection: what it wrote to  *)
(* the media store stays, and no response is sent (status -1 stands for    *)
(* the missing response, out keeps where the request stopped).             *)
StoreDeleteCrash ==
    /\ impl = "store" /\ pc \in {"unassign", "respond"}
    /\ pc' = "idle"
    /\ del' = NoDelete
    /\ resp' = Response("delete_collection", -1, del.id, pc)
    /\ UNCHANGED <<impl, storeVars, nextPid, dbVars>>
    /\ Track

(* upload_photos, lines 306-317: the context of an uploaded file *)
UploadContext(filename, title, description, collection_id, collection_name) ==
    LET t == IF title # EMPTY THEN title ELSE filename IN
    RemoveEmpty(
        IF collection_id # EMPTY /\ collection_name # EMPTY
        THEN [title |-> t, description |-> description,
              collection_id |-> collection_id, collection_name |-> collection_name]
        ELSE [title |-> t, description |-> description])

(* upload_photos, lines 299-340: the loop over the files, from file i on.  *)
(* oks[i]: whether the upload of file i succeeds; its exception is logged  *)
(* and the loop goes on.  The result is the media store's resources, the   *)
(* next fresh id and the number of photos uploaded.                        *)
RECURSIVE StoreUploadLoop(_, _, _, _, _)
StoreUploadLoop(files, oks, i, ctxOf, acc) ==
    IF i > Len(files) THEN acc
    ELSE IF files[i] # EMPTY /\ oks[i]
    THEN StoreUploadLoop(files, oks, i + 1, ctxOf,
             [ps |-> StoreUpload(acc.ps, PublicId(acc.next), ctxOf[i]),
              next |-> acc.next + 1,
              count |-> acc.count + 1])
    ELSE StoreUploadLoop(files, oks, i + 1, ctxOf, acc)

(* upload_photos, lines 342-352: the response, for count uploaded photos:  *)
(* the status, the success flag and the number of entries of 'photos'      *)
StoreUploadBody(count) ==
    IF count > 0 THEN [status |-> 200, success |-> TRUE, photos |-> count]
    ELSE [status |-> 500, success |-> FALSE, photos |-> 0]

(* upload_photos: POST /api/photos.  files: the file names of the 'photos' *)
(* field, <<>> when the field is missing.                                  *)
StoreUploadPhotos(files, title, description, collection_id, collection_name, oks) ==
    LET cid == Strip(collection_id)
        ctxOf == [i \in 1..Len(files) |->
                     UploadContext(files[i], Strip(title), Strip(description),
                                   cid, Strip(collection_name))]
        done == StoreUploadLoop(files, oks, 1, ctxOf,
                                [ps |-> photos, next |-> nextPid, count |-> 0])
        reported == IF cid # EMPTY /\ Strip(collection_name) # EMPTY THEN cid ELSE EMPTY
    IN
    /\ impl = "store" /\ pc = "idle"
    /\ nextPid + Len(files) <= MaxPhotos + 1
    /\ IF files = <<>>
       THEN /\ resp' = Response("upload_photos", 400, EMPTY, 0)
            /\ UNCHANGED <<photos, nextPid>>
       ELSE /\ photos' = done.ps
            /\ nextPid' = done.next
            /\ resp' = Response("upload_photos", StoreUploadBody(done.count).status,
                                reported, StoreUploadBody(done.count).photos)
    /\ UNCHANGED <<impl, registry, dbVars, pc, del>>
    /\ Track

(* What each of the successive attempts of one call to the media store     *)
(* would end in: TRUE when the attempt is answered, FALSE when it fails     *)
(* transiently                                                             *)
AttemptOutcomes == [1..3 -> BOOLEAN]

(* delete_photo, line 365: the call is made once; its outcome is the       *)
(* outcome of the first attempt                                            *)
Call(attempts) == attempts[1]

(* delete_photo, lines 365-377: the status of the response; destroy        *)
(* answers 'ok' for a photo the store holds                                *)
StoreDeleteStatus(ps, photo_id, attempts) ==
    IF Call(attempts) /\ \E i \in 1..Len(ps) : ps[i].public_id = photo_id
    THEN 200 ELSE 500

(* delete_photo: DELETE /api/photos/<photo_id> *)
StoreDeletePhoto(photo_id) ==
    /\ impl = "store" /\ pc = "idle"
    /\ \E attempts \in AttemptOutcomes :
       IF StoreDeleteStatus(photos, photo_id, attempts) = 200
       THEN /\ photos' = Destroy(photos, photo_id)
            /\ resp' = Response("delete_photo", 200, photo_id, NULL)
       ELSE /\ resp' = Response("delete_photo", 500, photo_id, NULL)
            /\ UNCHANGED photos
    /\ UNCHANGED <<impl, registry, nextPid, dbVars, pc, del>>
    /\ Track

(* update_photo_collection and bulk_update_photos, lines 403-417 and       *)
(* 466-480: the context written to the photo; title and description are    *)
(* those passed in                                                         *)
AssignContext(title, description, collection_id, collection_name) ==
    RemoveEmpty(
        IF collection_id # NULL /\ collection_name # EMPTY
        THEN [title |-> title, description |-> description,
              collection_id |-> Str(collection_id), collection_name |-> collection_name]
        ELSE [title |-> title, description |-> description])

(* update_photo_collection: PUT /api/photos/<photo_id>/collection.         *)
(* found: whether api.resource answers; ok: whether add_context succeeds.  *)
StoreUpdatePhotoCollection(photo_id, collection_id, collection_name, found) ==
    /\ impl = "store" /\ pc = "idle"
    /\ IF ~(found /\ \E i \in 1..Len(photos) : photos[i].public_id = photo_id)
       THEN /\ resp' = Response("update_photo_collection", 404, NULL, NULL)
            /\ UNCHANGED photos
       ELSE LET r == photos[CHOOSE i \in 1..Len(photos) : photos[i].public_id = photo_id]
                context == AssignContext(Get(r.context, "title", EMPTY),
                                         Get(r.context, "description", EMPTY),
                                         collection_id, collection_name)
            IN \E ok \in BOOLEAN : IF ok
               THEN /\ photos' = AddContext(photos, photo_id, context)
                    /\ resp' = Response("update_photo_collection", 200, NULL, NULL)
               ELSE /\ resp' = Response("update_photo_collection", 500, NULL, NULL)
                    /\ UNCHANGED photos
    /\ UNCHANGED <<impl, registry, nextPid, dbVars, pc, del>>
    /\ Track

(* photos[photo_index] after the test photo_index >= len(photos): the      *)
(* position in the list (from 1), or 0 when the index is skipped or is an  *)
(* IndexError; a negative index counts from the end of the list            *)
PyIndex(len, photo_index) ==
    IF photo_index >= len THEN 0
    ELSE IF photo_index >= 0 THEN photo_index + 1
    ELSE IF photo_index >= -len THEN len + photo_index + 1
    ELSE 0

(* bulk_update_photos, lines 455-493: the loop, from element i on.         *)
(* outs[i]: "ok", or which call of the iteration fails ("list": the photo  *)
(* list reads as empty; "set": add_context raises).                        *)
RECURSIVE StoreBulkUpdateLoop(_, _, _, _, _, _)
StoreBulkUpdateLoop(photo_ids, outs, i, collection_id, collection_name, acc) ==
    IF i > Len(photo_ids) THEN acc
    ELSE LET view == IF outs[i] = "list" THEN <<>> ELSE GetPhotosFromCloudinary(acc.ps)
             k == PyIndex(Len(view), photo_ids[i])
         IN IF k = 0 \/ outs[i] = "set"
            THEN StoreBulkUpdateLoop(photo_ids, outs, i + 1, collection_id,
                                     collection_name, acc)
            ELSE StoreBulkUpdateLoop(photo_ids, outs, i + 1, collection_id,
                     collection_name,
                     [ps |-> AddContext(acc.ps, view[k].id,
                                 AssignContext(view[k].title, view[k].description,
                                               collection_id, collection_name)),
                      count |-> acc.count + 1])

(* bulk_update_photos: PUT /api/photos/bulk-update *)
StoreBulkUpdatePhotos(photo_ids, collection_id, collection_name, outs) ==
    /\ impl = "store" /\ pc = "idle"
    /\ IF photo_ids = <<>>
       THEN /\ resp' = Response("bulk_update_photos", 400, NULL, 0)
            /\ UNCHANGED photos
       ELSE LET done == StoreBulkUpdateLoop(photo_ids, outs, 1, collection_id,
                                            collection_name, [ps |-> photos, count |-> 0])
            IN /\ photos' = done.ps
               /\ resp' = Response("bulk_update_photos", 200, NULL, done.count)
    /\ UNCHANGED <<impl, registry, nextPid, dbVars, pc, del>>
    /\ Track

(* A loop of bulk_delete_photos that stops at the first element whose      *)
(* destroy call does not answer                                            *)
RECURSIVE StoreBulkDeleteAbort(_, _, _, _, _)
StoreBulkDeleteAbort(photo_ids, oks, i, view, acc) ==
    IF i > Len(photo_ids) THEN acc
    ELSE LET k == PyIndex(Len(view), photo_ids[i])
         IN IF k # 0 /\ ~oks[i] THEN acc
            ELSE IF k # 0 /\ \E j \in 1..Len(acc.ps) : acc.ps[j].public_id = view[k].id
            THEN StoreBulkDeleteAbort(photo_ids, oks, i + 1, view,
                     [ps |-> Destroy(acc.ps, view[k].id), count |-> acc.count + 1])
            ELSE StoreBulkDeleteAbort(photo_ids, oks, i + 1, view, acc)

(* bulk_delete_photos, lines 526-545: the loop over the indexes into the   *)
(* photo list fetched once, from element i on.  oks[i]: whether destroy    *)
(* answers.                                                                *)
RECURSIVE StoreBulkDeleteLoop(_, _, _, _, _)
StoreBulkDeleteLoop(photo_ids, oks, i, view, acc) ==
    IF i > Len(photo_ids) THEN acc
    ELSE LET k == PyIndex(Len(view), photo_ids[i])
         IN IF k # 0 /\ oks[i] /\ \E j \in 1..Len(acc.ps) : acc.ps[j].public_id = view[k].id
            THEN StoreBulkDeleteLoop(photo_ids, oks, i + 1, view,
                     [ps |-> Destroy(acc.ps, view[k].id), count |-> acc.count + 1])
            ELSE StoreBulkDeleteLoop(photo_ids, oks, i + 1, view, acc)

(* bulk_delete_photos: DELETE /api/photos/bulk-delete.  loaded: whether    *)
(* the photo list could be read (it reads as empty when not).              *)
StoreBulkDeletePhotos(photo_ids, loaded, oks) ==
    /\ impl = "store" /\ pc = "idle"
    /\ IF photo_ids = <<>>
       THEN /\ resp' = Response("bulk_delete_photos", 400, NULL, 0)
            /\ UNCHANGED photos
       ELSE LET view == IF loaded THEN GetPhotosFromCloudinary(photos) ELSE <<>>
                done == StoreBulkDeleteLoop(photo_ids, oks, 1, view,
                                            [ps |-> photos, count |-> 0])
            IN /\ photos' = done.ps
               /\ resp' = Response("bulk_delete_photos", 200, NULL, done.count)
    /\ UNCHANGED <<impl, registry, nextPid, dbVars, pc, del>>
    /\ Track

----------------------------------------------------------------------------
(* src/src/models/photo.py and src/src/routes: the relational implementation *)

Put(rows, id, row) == [i \in DOMAIN rows \cup {id} |-> IF i = id THEN row ELSE rows[i]]

Remove(rows, ids) == [i \in DOMAIN rows \ ids |-> rows[i]]

NoRows == <<>>

NoSession == [collections |-> NoRows, photos |-> NoRows]

RECURSIVE Sorted(_)
Sorted(S) ==
    IF S = {} THEN <<>>
    ELSE LET m == CHOOSE x \in S : \A y \in S : x <= y IN <<m>> \o Sorted(S \ {m})

(* Collection.photos: the photos whose foreign key is the collection *)
PhotosOf(phs, collection_id) ==
    {p \in DOMAIN phs : phs[p].collection_id = collection_id}

(* Collection.to_dict *)
CollectionToDict(colls, phs, id) ==
    [id |-> id, name |-> colls[id].name,
     photo_count |-> Cardinality(PhotosOf(phs, id))]

(* get_collections: GET /collections *)
DbGetCollections(colls, phs) == [id \in DOMAIN colls |-> CollectionToDict(colls, phs, id)]

(* Photo.to_dict; None is NULL for collection_id and EMPTY for the name *)
PhotoToDict(colls, phs, id) ==
    [id |-> id, title |-> phs[id].title, description |-> phs[id].description,
     cloudinary_public_id |-> phs[id].cloudinary_public_id,
     cloudinary_secure_url |-> SecureUrl(phs[id].cloudinary_public_id),
     collection_id |-> phs[id].collection_id,
     collection_name |-> IF phs[id].collection_id \in DOMAIN colls
                         THEN colls[phs[id].collection_id].name ELSE EMPTY]

(* get_photos: GET /photos *)
DbGetPhotos(colls, phs) == [id \in DOMAIN phs |-> PhotoToDict(colls, phs, id)]

(* create_collection, line 35: Collection.query.filter_by(name=name).first() *)
DbNameExists(colls, name) == \E c \in DOMAIN colls : colls[c].name = name

(* create_collection: POST /collections.  committed (here and below):      *)
(* whether the commit succeeds; the session is rolled back when it does    *)
(* not.                                                                    *)
DbCreateCollection(raw) ==
    LET name == Strip(raw) IN
    /\ impl = "db" /\ pc = "idle"
    /\ IF name = EMPTY
       THEN /\ resp' = Response("create_collection", 400, raw, NULL)
            /\ UNCHANGED <<collections, nextCollId>>
       ELSE IF DbNameExists(collections, name)
       THEN /\ resp' = Response("create_collection", 409, raw, NULL)
            /\ UNCHANGED <<collections, nextCollId>>
       ELSE \E committed \in BOOLEAN : IF committed
       THEN /\ nextCollId <= MaxColls
            /\ collections' = Put(collections, nextCollId, [name |-> name])
            /\ nextCollId' = nextCollId + 1
            /\ resp' = Response("create_collection", 201, raw, nextCollId)
       ELSE /\ resp' = Response("create_collection", 500, raw, NULL)
            /\ UNCHANGED <<collections, nextCollId>>
    /\ UNCHANGED <<impl, storeVars, nextPid, dbPhotos, blobs, nextPhotoId, sess, pc, del>>
    /\ Track

(* update_collection, lines 113-116: another collection has the name *)
DbOtherNameExists(colls, collection_id, name) ==
    \E c \in DOMAIN colls : colls[c].name = name /\ c # collection_id

(* update_collection: PUT /collections/<id> *)
DbUpdateCollection(collection_id, raw) ==
    LET new_name == Strip(raw) IN
    /\ impl = "db" /\ pc = "idle"
    /\ IF collection_id \notin DOMAIN collections
       THEN /\ resp' = Response("update_collection", 404, <<collection_id, raw>>, NULL)
            /\ UNCHANGED collections
       ELSE IF new_name = EMPTY
       THEN /\ resp' = Response("update_collection", 400, <<collection_id, raw>>, NULL)
            /\ UNCHANGED collections
       ELSE IF DbOtherNameExists(collections, collection_id, new_name)
       THEN /\ resp' = Response("update_collection", 409, <<collection_id, raw>>, NULL)
            /\ UNCHANGED collections
       ELSE \E committed \in BOOLEAN : IF committed
       THEN /\ collections' = [collections EXCEPT ![collection_id].name = new_name]
            /\ resp' = Response("update_collection", 200, <<collection_id, raw>>, NULL)
       ELSE /\ resp' = Response("update_collection", 500, <<collection_id, raw>>, NULL)
            /\ UNCHANGED collections
    /\ UNCHANGED <<impl, storeVars, nextPid, dbPhotos, blobs, nextCollId, nextPhotoId,
                   sess, pc, del>>
    /\ Track

(* delete_collection, lines 65-73: DELETE /collections/<id>, up to the     *)
(* query for the photos of the collection; the session starts from the     *)
(* committed rows                                                          *)
DbDeleteBegin(collection_id) ==
    /\ impl = "db" /\ pc = "idle"
    /\ IF collection_id \in DOMAIN collections
       THEN /\ sess' = [collections |-> collections, photos |-> dbPhotos]
            /\ del' = [id |-> collection_id, retry |-> FALSE, colls |-> <<>>,
                       todo |-> Sorted(PhotosOf(dbPhotos, collection_id)),
                       saved |-> FALSE]
            /\ pc' = "tx_clear"
            /\ resp' = Response("delete_collection", 0, collection_id, NULL)
       ELSE /\ resp' = Response("delete_collection", 404, collection_id, NULL)
            /\ UNCHANGED <<sess, pc, del>>
    /\ UNCHANGED <<impl, storeVars, nextPid, collections, dbPhotos, blobs, nextCollId,
                   nextPhotoId>>
    /\ Track

(* A delete_collection that leaves the photos' foreign key as it is *)
DbKeepPhoto(s, photo_id) == s

(* delete_collection, lines 74-75: photo.collection_id = None, in the session *)
DbClearPhoto(s, photo_id) ==
    [s EXCEPT !.photos = [s.photos EXCEPT ![photo_id].collection_id = NULL]]

DbDeleteClear ==
    /\ impl = "db" /\ pc = "tx_clear" /\ del.todo # <<>>
    /\ sess' = DbClearPhoto(sess, Head(del.todo))
    /\ del' = [del EXCEPT !.todo = Tail(del.todo)]
    /\ UNCHANGED <<impl, storeVars, nextPid, collections, dbPhotos, blobs, nextCollId,
                   nextPhotoId, pc, resp>>
    /\ Track

(* delete_collection, line 78: db.session.delete(collection).  The          *)
(* relationship Collection.photos cascades 'all, delete-orphan' (photo.py   *)
(* line 14): the photos that are the collection's in the session are        *)
(* deleted with it.                                                        *)
DbSessionDelete(s, collection_id) ==
    [collections |-> Remove(s.collections, {collection_id}),
     photos |-> Remove(s.photos, PhotosOf(s.photos, collection_id))]

DbDeleteRow ==
    /\ impl = "db" /\ pc = "tx_clear" /\ del.todo = <<>>
    /\ sess' = DbSessionDelete(sess, del.id)
    /\ pc' = "tx_commit"
    /\ UNCHANGED <<impl, storeVars, nextPid, collections, dbPhotos, blobs, nextCollId,
                   nextPhotoId, del, resp>>
    /\ Track

(* delete_collection, lines 79-84: db.session.commit() and the response *)
DbDeleteCommit ==
    /\ impl = "db" /\ pc = "tx_commit"
    /\ collections' = sess.collections
    /\ dbPhotos' = sess.photos
    /\ sess' = NoSession
    /\ pc' = "idle"
    /\ del' = NoDelete
    /\ resp' = Response("delete_collection", 200, del.id, NULL)
    /\ UNCHANGED <<impl, storeVars, nextPid, blobs, nextCollId, nextPhotoId>>
    /\ Track

(* A failure handler that flushes the session instead of rolling it back *)
DbFlushSession(committed, s) == s

(* delete_collection, lines 86-91: db.session.rollback(): what the rows    *)
(* are after a step of the transaction raised                              *)
DbRollback(committed, s) == committed

(* A step of delete_collection raises (a flush, the delete or the commit); *)
(* resp keeps where.                                                       *)
DbDeleteFail ==
    /\ impl = "db" /\ pc \in {"tx_clear", "tx_commit"}
    /\ LET rows == DbRollback([collections |-> collections, photos |-> dbPhotos], sess)
       IN /\ collections' = rows.collections
          /\ dbPhotos' = rows.photos
    /\ sess' = NoSession
    /\ pc' = "idle"
    /\ resp' = Response("delete_collection", 500, del.id, pc)
    /\ del' = NoDelete
    /\ UNCHANGED <<impl, storeVars, nextPid, blobs, nextCollId, nextPhotoId>>
    /\ Track

(* upload_photos, lines 82-83: the title and description of file i *)
DbTitle(titles, i, filename) ==
    IF i <= Len(titles) /\ titles[i] # EMPTY THEN titles[i] ELSE filename

DbDescription(descriptions, i) ==
    IF i <= Len(descriptions) /\ descriptions[i] # EMPTY THEN descriptions[i] ELSE EMPTY

(* upload_photos, lines 78-114: the loop over the files, from file i on.   *)
(* oks[i]: whether the upload of file i succeeds; its exception is logged  *)
(* and the loop goes on.  The result is the media store's objects, the     *)
(* rows of the session, the next fresh ids and the number of photos added. *)
RECURSIVE DbUploadLoop(_, _, _, _, _, _, _)
DbUploadLoop(files, titles, descriptions, collection_id, oks, i, acc) ==
    IF i > Len(files) THEN acc
    ELSE IF files[i] # EMPTY /\ oks[i]
    THEN DbUploadLoop(files, titles, descriptions, collection_id, oks, i + 1,
             [blobs |-> acc.blobs \cup {PublicId(acc.nextPid)},
              rows |-> Put(acc.rows, acc.nextId,
                           [title |-> DbTitle(titles, i, files[i]),
                            description |-> DbDescription(descriptions, i),
                            cloudinary_public_id |-> PublicId(acc.nextPid),
                            collection_id |-> collection_id]),
              nextPid |-> acc.nextPid + 1,
              nextId |-> acc.nextId + 1,
              count |-> acc.count + 1])
    ELSE DbUploadLoop(files, titles, descriptions, collection_id, oks, i + 1, acc)

(* upload_photos, lines 118-122: the response after the commit, for count  *)
(* photos added: the status, the success flag and the number of entries of *)
(* 'photos'                                                                *)
DbUploadBody(count) == [status |-> 200, success |-> TRUE, photos |-> count]

(* An upload_photos that looks the collection up only after the files are  *)
(* uploaded to the media store                                             *)
DbUploadThenValidate(files, titles, descriptions, collection_id, oks) ==
    LET done == DbUploadLoop(files, titles, descriptions, collection_id, oks, 1,
                    [blobs |-> blobs, rows |-> dbPhotos, nextPid |-> nextPid,
                     nextId |-> nextPhotoId, count |-> 0])
    IN
    /\ impl = "db" /\ pc = "idle"
    /\ nextPid + Len(files) <= MaxPhotos + 1
    /\ files # <<>> /\ collection_id # NULL /\ collection_id \notin DOMAIN collections
    /\ blobs' = done.blobs
    /\ nextPid' = done.nextPid
    /\ resp' = Response("upload_photos", 404, NULL, 0)
    /\ UNCHANGED <<impl, storeVars, collections, dbPhotos, nextCollId, nextPhotoId,
                   sess, pc, del>>
    /\ Track

(* upload_photos: POST /photos.  files: the file names of the 'files'      *)
(* field, <<>> when the field is missing.                                  *)
DbUploadPhotos(files, titles, descriptions, collection_id, oks) ==
    LET done == DbUploadLoop(files, titles, descriptions, collection_id, oks, 1,
                    [blobs |-> blobs, rows |-> dbPhotos, nextPid |-> nextPid,
                     nextId |-> nextPhotoId, count |-> 0])
    IN
    /\ impl = "db" /\ pc = "idle"
    /\ nextPid + Len(files) <= MaxPhotos + 1
    /\ IF files = <<>> \/ \A i \in 1..Len(files) : files[i] = EMPTY
       THEN /\ resp' = Response("upload_photos", 400, NULL, 0)
            /\ UNCHANGED <<dbPhotos, blobs, nextPid, nextPhotoId>>
       ELSE IF collection_id # NULL /\ collection_id \notin DOMAIN collections
       THEN /\ resp' = Response("upload_photos", 404, NULL, 0)
            /\ UNCHANGED <<dbPhotos, blobs, nextPid, nextPhotoId>>
       ELSE /\ blobs' = done.blobs
            /\ nextPid' = done.nextPid
            /\ \E committed \in BOOLEAN : IF committed
               THEN /\ dbPhotos' = done.rows
                    /\ nextPhotoId' = done.nextId
                    /\ resp' = Response("upload_photos", DbUploadBody(done.count).status,
                                        collection_id, DbUploadBody(done.count).photos)
               ELSE /\ resp' = Response("upload_photos", 500, NULL, 0)
                    /\ UNCHANGED <<dbPhotos, nextPhotoId>>
    /\ UNCHANGED <<impl, storeVars, collections, nextCollId, sess, pc, del>>
    /\ Track

(* delete_photo: DELETE /photos/<id>.  destroyed: whether destroy succeeds *)
(* (its exception is logged); committed: whether the commit succeeds (the  *)
(* session is rolled back when it does not).                               *)
DbDeletePhoto(photo_id) ==
    /\ impl = "db" /\ pc = "idle"
    /\ IF photo_id \notin DOMAIN dbPhotos
       THEN /\ resp' = Response("delete_photo", 404, photo_id, NULL)
            /\ UNCHANGED <<dbPhotos, blobs>>
       ELSE /\ \E destroyed \in BOOLEAN :
                   blobs' = IF destroyed
                            THEN blobs \ {dbPhotos[photo_id].cloudinary_public_id}
                            ELSE blobs
            /\ \E committed \in BOOLEAN : IF committed
               THEN /\ dbPhotos' = Remove(dbPhotos, {photo_id})
                    /\ resp' = Response("delete_photo", 200, photo_id, NULL)
               ELSE /\ resp' = Response("delete_photo", 500, photo_id, NULL)
                    /\ UNCHANGED dbPhotos
    /\ UNCHANGED <<impl, storeVars, nextPid, collections, nextCollId, nextPhotoId,
                   sess, pc, del>>
    /\ Track

(* update_photo_collection: PUT /photos/<id>/collection *)
DbUpdatePhotoCollection(photo_id, collection_id) ==
    /\ impl = "db" /\ pc = "idle"
    /\ IF photo_id \notin DOMAIN dbPhotos
       THEN /\ resp' = Response("update_photo_collection", 404, NULL, NULL)
            /\ UNCHANGED dbPhotos
       ELSE IF collection_id # NULL /\ collection_id \notin DOMAIN collections
       THEN /\ resp' = Response("update_photo_collection", 404, NULL, NULL)
            /\ UNCHANGED dbPhotos
       ELSE \E committed \in BOOLEAN : IF committed
       THEN /\ dbPhotos' = [dbPhotos EXCEPT ![photo_id].collection_id = collection_id]
            /\ resp' = Response("update_photo_collection", 200, NULL, NULL)
       ELSE /\ resp' = Response("update_photo_collection", 500, NULL, NULL)
            /\ UNCHANGED dbPhotos
    /\ UNCHANGED <<impl, storeVars, nextPid, collections, blobs, nextCollId, nextPhotoId,
                   sess, pc, del>>
    /\ Track

(* bulk_update_photos line 231, bulk_delete_photos line 263:               *)
(* Photo.query.filter(Photo.id.in_(photo_ids)).all()                       *)
DbBulkFound(rows, photo_ids) == photo_ids \cap DOMAIN rows

(* bulk_update_photos: PUT /photos/bulk-update; photo_ids is a set of ids *)
DbBulkUpdatePhotos(photo_ids, collection_id) ==
    LET found == DbBulkFound(dbPhotos, photo_ids) IN
    /\ impl = "db" /\ pc = "idle"
    /\ IF photo_ids = {}
       THEN /\ resp' = Response("bulk_update_photos", 400, NULL, 0)
            /\ UNCHANGED dbPhotos
       ELSE IF collection_id # NULL /\ collection_id \notin DOMAIN collections
       THEN /\ resp' = Response("bulk_update_photos", 404, NULL, 0)
            /\ UNCHANGED dbPhotos
       ELSE \E committed \in BOOLEAN : IF committed
       THEN /\ dbPhotos' = [p \in DOMAIN dbPhotos |->
                               IF p \in found
                               THEN [dbPhotos[p] EXCEPT !.collection_id = collection_id]
                               ELSE dbPhotos[p]]
            /\ resp' = Response("bulk_update_photos", 200, NULL, Cardinality(found))
       ELSE /\ resp' = Response("bulk_update_photos", 500, NULL, 0)
            /\ UNCHANGED dbPhotos
    /\ UNCHANGED <<impl, storeVars, nextPid, collections, blobs, nextCollId, nextPhotoId,
                   sess, pc, del>>
    /\ Track

(* bulk_delete_photos: DELETE /photos/bulk-delete.  destroyed: the photos  *)
(* whose destroy call succeeds; the exception of another is logged.        *)
DbBulkDeletePhotos(photo_ids) ==
    LET found == DbBulkFound(dbPhotos, photo_ids) IN
    /\ impl = "db" /\ pc = "idle"
    /\ IF photo_ids = {}
       THEN /\ resp' = Response("bulk_delete_photos", 400, NULL, 0)
            /\ UNCHANGED <<dbPhotos, blobs>>
       ELSE /\ \E destroyed \in SUBSET found :
                   blobs' = blobs \ {dbPhotos[p].cloudinary_public_id : p \in destroyed}
            /\ \E committed \in BOOLEAN : IF committed
               THEN /\ dbPhotos' = Remove(dbPhotos, found)
                    /\ resp' = Response("bulk_delete_photos", 200, NULL,
                                        Cardinality(found))
               ELSE /\ resp' = Response("bulk_delete_photos", 500, NULL, 0)
                    /\ UNCHANGED dbPhotos
    /\ UNCHANGED <<impl, storeVars, nextPid, collections, nextCollId, nextPhotoId,
                   sess, pc, del>>
    /\ Track

----------------------------------------------------------------------------
(* The specification *)

Init ==
    /\ impl \in {"store", "db"}
    /\ registry = <<>>
    /\ photos = <<>>
    /\ nextPid = 1
    /\ collections = NoRows
    /\ dbPhotos = NoRows
    /\ blobs = {}
    /\ nextCollId = 1
    /\ nextPhotoId = 1
    /\ sess = NoSession
    /\ pc = "idle"
    /\ del = NoDelete
    /\ resp = Response("none", 0, NULL, NULL)
    /\ scenario = [step |-> 0, c |-> NULL, deleted |-> NULL]

StoreNext ==
    \/ \E raw \in RawNames, loaded \in BOOLEAN : StoreCreateCollection(raw, loaded)
    \/ \E c \in 1..MaxColls, loadedC, loadedP \in BOOLEAN :
           StoreDeleteBegin(c, loadedC, loadedP)
    \/ \E ok \in BOOLEAN : StoreDeleteUnassign(ok)
    \/ \E ok \in BOOLEAN : StoreDeleteSave(ok)
    \/ StoreDeleteRespond
    \/ StoreDeleteCrash
    \/ \E files \in FileLists, m \in MetaInputs, c \in StoreCollInputs :
           \E oks \in Outcomes(Len(files)) :
               StoreUploadPhotos(files, m.title, m.description, FormValue(c.id),
                                 c.name, oks)
    \/ \E p \in PublicIds : StoreDeletePhoto(p)
    \/ \E p \in PublicIds, c \in StoreCollInputs, found \in BOOLEAN :
           StoreUpdatePhotoCollection(p, c.id, c.name, found)
    \/ \E ids \in IndexLists, c \in StoreCollInputs :
           \E outs \in BulkOutcomes(Len(ids)) :
               StoreBulkUpdatePhotos(ids, c.id, c.name, outs)
    \/ \E ids \in IndexLists, loaded \in BOOLEAN :
           \E oks \in Outcomes(Len(ids)) : StoreBulkDeletePhotos(ids, loaded, oks)

DbNext ==
    \/ \E raw \in RawNames : DbCreateCollection(raw)
    \/ \E c \in 1..MaxColls, raw \in RawNames : DbUpdateCollection(c, raw)
    \/ \E c \in 1..MaxColls : DbDeleteBegin(c)
    \/ DbDeleteClear
    \/ DbDeleteRow
    \/ DbDeleteCommit
    \/ DbDeleteFail
    \/ \E files \in FileLists, m \in MetaLists, c \in CollIdInputs :
           \E oks \in Outcomes(Len(files)) :
               DbUploadPhotos(files, m.titles, m.descriptions, c, oks)
    \/ \E p \in PhotoIds : DbDeletePhoto(p)
    \/ \E p \in PhotoIds, c \in CollIdInputs : DbUpdatePhotoCollection(p, c)
    \/ \E ids \in SUBSET PhotoIds, c \in CollIdInputs : DbBulkUpdatePhotos(ids, c)
    \/ \E ids \in SUBSET PhotoIds : DbBulkDeletePhotos(ids)

Next == StoreNext \/ DbNext

Spec == Init /\ [][Next]_vars

----------------------------------------------------------------------------
(* What the reads return, in either implementation, when their own calls   *)
(* to the media store succeed                                              *)

Listed(f) == {f[x] : x \in DOMAIN f}

ListedCollections ==
    IF impl = "store" THEN Listed(StoreGetCollections(registry, photos, TRUE, TRUE))
    ELSE Listed(DbGetCollections(collections, dbPhotos))

ListedPhotos ==
    IF impl = "store" THEN Listed(StoreGetPhotos(photos, TRUE))
    ELSE Listed(DbGetPhotos(collections, dbPhotos))

HasRef(p) == IF impl = "store" THEN p.collection_id # EMPTY ELSE p.collection_id # NULL

RefersTo(p, c) == p.collection_id = CollRef(c)

IsListed(c) == \E x \in ListedCollections : x.id = c

Referenced(c) == \E p \in ListedPhotos : RefersTo(p, c)

----------------------------------------------------------------------------
(* C1: after any sequence of completed requests, every photo that has a    *)
(* collection reference references a collection that is in the registry.   *)
C1_ReferentialIntegrity ==
    pc = "idle" =>
        \A p \in ListedPhotos : HasRef(p) => \E c \in ListedCollections : RefersTo(p, c.id)

(* C2: when delete-collection answers success, no photo references the     *)
(* deleted collection and the collection is not listed.                    *)
C2_DeleteUnassignsAll ==
    (resp.op = "delete_collection" /\ resp.status = 200) =>
        ~IsListed(resp.arg) /\ ~Referenced(resp.arg)

(* C3: while a delete-collection request is in progress, a read between    *)
(* any two of its steps never finds a photo that references the            *)
(* collection being deleted once that collection is out of the registry.   *)
C3_NoDanglingWindow ==
    pc # "idle" => (~IsListed(del.id) => ~Referenced(del.id))

(* C4: in the relational implementation every step of a delete-collection *)
(* request leaves the committed rows as they were, except the commit that  *)
(* answers success, which removes the collection and clears the reference  *)
(* of each of its photos at once: a request that fails leaves the rows of  *)
(* before the request.                                                     *)
C4_AllOrNothing ==
    [][(impl = "db" /\ resp'.op = "delete_collection") =>
          LET d == resp'.arg
          IN \/ /\ collections' = collections
                /\ dbPhotos' = dbPhotos
                /\ resp'.status # 200
             \/ /\ resp'.status = 200
                /\ collections' = Remove(collections, {d})
                /\ dbPhotos' = [p \in DOMAIN dbPhotos |->
                                   IF dbPhotos[p].collection_id = d
                                   THEN [dbPhotos[p] EXCEPT !.collection_id = NULL]
                                   ELSE dbPhotos[p]]]_vars

(* A delete-collection request of the relational implementation failed at  *)
(* its commit, after it had cleared a photo and deleted the collection in  *)
(* its session: the collection and the photo's reference are still stored. *)
C4_Witness ==
    /\ impl = "db" /\ pc = "idle"
    /\ resp.op = "delete_collection" /\ resp.status = 500
    /\ resp.out = "tx_commit"
    /\ resp.arg \in DOMAIN collections
    /\ \E p \in DOMAIN dbPhotos : dbPhotos[p].collection_id = resp.arg

(* C5: delete-collection unassigns first and writes the registry second:   *)
(* until the registry write the collection is listed, and a delete that is *)
(* run again after the request stopped before the registry write, and      *)
(* answers success, leaves the collection unlisted and no photo            *)
(* referencing it.                                                         *)
C5_RetryCompletes ==
    [][LET d == del.id
       IN /\ (impl = "store" /\ pc = "unassign") => IsListed(d)
          /\ (impl = "store" /\ pc = "respond" /\ del.retry
                 /\ resp'.op = "delete_collection" /\ resp'.status = 200)
             => /\ \A x \in ListedCollections' : x.id # d
                /\ \A p \in ListedPhotos' : p.collection_id # CollRef(d)]_vars

(* C6: no step of a delete-collection request removes a photo or a remote  *)
(* object or changes a photo's title, description or locator; a photo that *)
(* did not reference the collection is unchanged, and a photo that did     *)
(* keeps its reference or has none.                                        *)
C6_CascadeToNull ==
    [][resp'.op = "delete_collection" =>
          IF impl = "store"
          THEN LET old == StoreGetPhotos(photos, TRUE)
                   new == StoreGetPhotos(photos', TRUE)
               IN /\ Len(new) = Len(old)
                  /\ \A i \in 1..Len(old) :
                         /\ new[i].id = old[i].id
                         /\ new[i].url = old[i].url
                         /\ new[i].title = old[i].title
                         /\ new[i].description = old[i].description
                         /\ new[i].collection_id \in {old[i].collection_id, EMPTY}
                         /\ old[i].collection_id # Str(resp'.arg) => photos'[i] = photos[i]
          ELSE LET old == DbGetPhotos(collections, dbPhotos)
                   new == DbGetPhotos(collections', dbPhotos')
               IN /\ DOMAIN new = DOMAIN old
                  /\ blobs' = blobs
                  /\ \A p \in DOMAIN old :
                         /\ new[p].title = old[p].title
                         /\ new[p].description = old[p].description
                         /\ new[p].cloudinary_public_id = old[p].cloudinary_public_id
                         /\ new[p].cloudinary_secure_url = old[p].cloudinary_secure_url
                         /\ new[p].collection_id \in {old[p].collection_id, NULL}
                         /\ old[p].collection_id # resp'.arg => new[p] = old[p]]_vars

(* The relational implementation went through the end-to-end scenario: the *)
(* collection was deleted while a photo uploaded to it was left, and that   *)
(* photo is listed without a collection.                                   *)
C6_Witness ==
    /\ impl = "db" /\ scenario.step = 4
    /\ \E p \in ListedPhotos : ~HasRef(p)

(* C7: create-collection with a name that equals an existing name when     *)
(* letter case is ignored, after trimming, answers 409 (or 500 when the    *)
(* store cannot be reached) and leaves the number of collections           *)
(* unchanged.                                                              *)
C7_DuplicateNameRejected ==
    [][(/\ resp'.op = "create_collection"
        /\ \E c \in ListedCollections : Lower(c.name) = Lower(Strip(resp'.arg)))
       => /\ resp'.status \in {409, 500}
          /\ Cardinality(ListedCollections') = Cardinality(ListedCollections)]_vars

(* C8: no two distinct collections have names that are equal ignoring      *)
(* letter case; a rename to a name another collection uses (ignoring case) *)
(* answers 409, a rename of a missing id answers 404, and a rename of a    *)
(* collection to its own name is not rejected as a duplicate.              *)
C8_NamesUnique ==
    [][/\ \A c, d \in ListedCollections' :
              c.id # d.id => Lower(c.name) # Lower(d.name)
       /\ resp'.op = "update_collection" =>
            LET id == resp'.arg[1]
                name == Strip(resp'.arg[2])
            IN /\ ~IsListed(id) => resp'.status = 404
               /\ (/\ IsListed(id)
                   /\ \E c \in ListedCollections :
                          c.id # id /\ Lower(c.name) = Lower(name))
                  => resp'.status = 409
               /\ (IsListed(id) /\ collections[id].name = name)
                  => resp'.status \in {200, 500}]_vars

(* C9: whatever the outcome of the listing's own reads, the photo_count    *)
(* that the collection listing reports for a collection is the number of   *)
(* photos whose stored collection reference is that collection's id.       *)
C9_CountIsCurrent ==
    IF impl = "store"
    THEN \A loadedC, loadedP \in BOOLEAN :
             \A c \in Listed(StoreGetCollections(registry, photos, loadedC, loadedP)) :
                 c.photo_count =
                     Cardinality({i \in 1..Len(photos) :
                         /\ "collection_id" \in DOMAIN photos[i].context
                         /\ photos[i].context.collection_id = Str(c.id)})
    ELSE \A c \in Listed(DbGetCollections(collections, dbPhotos)) :
             c.photo_count =
                 Cardinality({p \in DOMAIN dbPhotos : dbPhotos[p].collection_id = c.id})

(* C10: in the end-to-end scenario, the listing reports photo_count 2      *)
(* after the upload of 2 photos to the new collection, photo_count 1 and   *)
(* the deleted photo gone after the deletion of one of them, and no photo  *)
(* with a collection reference after the deletion of the collection.       *)
C10_Scenario ==
    pc = "idle" =>
        /\ scenario.step = 2 =>
               \E c \in ListedCollections : c.id = scenario.c /\ c.photo_count = 2
        /\ scenario.step = 3 =>
               /\ \E c \in ListedCollections : c.id = scenario.c /\ c.photo_count = 1
               /\ \A p \in ListedPhotos : p.id # scenario.deleted
        /\ scenario.step = 4 => \A p \in ListedPhotos : ~HasRef(p)

(* C11: in a multi-file upload a failed file does not stop the files       *)
(* after it, the response reports the files that succeeded together with   *)
(* the number of failures, and the relational implementation stores        *)
(* exactly one photo record per file uploaded to the media store.          *)
C11_PartialUpload ==
    [][/\ \A files \in FileLists : \A oks \in Outcomes(Len(files)) :
            LET named == {i \in 1..Len(files) : files[i] # EMPTY}
                ok == {i \in named : oks[i]}
                sdone == StoreUploadLoop(files, oks, 1,
                             [i \in 1..Len(files) |->
                                 UploadContext(files[i], EMPTY, EMPTY, EMPTY, EMPTY)],
                             [ps |-> photos, next |-> nextPid, count |-> 0])
                ddone == DbUploadLoop(files, <<>>, <<>>, NULL, oks, 1,
                             [blobs |-> blobs, rows |-> dbPhotos, nextPid |-> nextPid,
                              nextId |-> nextPhotoId, count |-> 0])
                n == IF impl = "store" THEN Len(sdone.ps) - Len(photos)
                     ELSE Cardinality(DOMAIN ddone.rows \ DOMAIN dbPhotos)
                body == IF impl = "store" THEN StoreUploadBody(sdone.count)
                        ELSE DbUploadBody(ddone.count)
            IN (pc = "idle" /\ ok # {}) =>
                   /\ n = Cardinality(ok)
                   /\ body.success /\ body.photos = Cardinality(ok)
                   /\ named \ ok # {} =>
                          /\ "failed" \in DOMAIN body
                          /\ body.failed = Cardinality(named \ ok)
       /\ (impl = "db" /\ resp'.op = "upload_photos") =>
              {dbPhotos'[p].cloudinary_public_id : p \in DOMAIN dbPhotos' \ DOMAIN dbPhotos}
                  = blobs' \ blobs]_vars

C13_ClearedIsNull ==
    pc = "idle" =>
        IF impl = "store"
        THEN \A k \in 1..Len(photos) : \A c \in {x \in StoreCollInputs : x.id = NULL} :
                 LET old == GetPhotosFromCloudinary(photos)[k]
                     context == AssignContext(Get(photos[k].context, "title", EMPTY),
                                    Get(photos[k].context, "description", EMPTY),
                                    c.id, c.name)
                     e == StoreGetPhotos(AddContext(photos, old.id, context), TRUE)[k]
                 IN old.collection_id # EMPTY =>
                        \/ "collection_id" \notin DOMAIN e
                        \/ e.collection_id \notin {EMPTY, old.collection_id}
        ELSE \A q \in DOMAIN dbPhotos :
                 LET e == DbGetPhotos(collections,
                              [dbPhotos EXCEPT ![q].collection_id = NULL])[q]
                 IN dbPhotos[q].collection_id # NULL => e.collection_id = NULL

(* C14: after any sequence of completed requests, the collection_name      *)
(* reported for a photo that has a collection reference is the name that   *)
(* the collection of that id currently has in the registry.                *)
C14_NameFollowsRegistry ==
    pc = "idle" =>
        \A p \in ListedPhotos : \A c \in ListedCollections :
            (HasRef(p) /\ RefersTo(p, c.id)) => p.collection_name = c.name

(* C15: in the store-derived implementation the id given to a new          *)
(* collection depends on its name alone: it is the id the same name gets   *)
(* in an empty registry, whatever the registry holds.                      *)
C15_IdFromNameAlone ==
    impl = "store" =>
        \A raw \in RawNames :
            Strip(raw) # EMPTY =>
                StoreNewCollection(registry, Strip(raw)).id
                    = StoreNewCollection(<<>>, Strip(raw)).id

(* C16: a call to the media store that fails transiently is attempted      *)
(* again, up to 3 attempts: delete-photo of a photo the store holds        *)
(* answers success when any of the 3 attempts of destroy is answered.      *)
C16_RetriedUpToThree ==
    (impl = "store" /\ pc = "idle") =>
        \A k \in 1..Len(photos) : \A attempts \in AttemptOutcomes :
            (\E i \in 1..3 : attempts[i]) =>
                StoreDeleteStatus(photos, photos[k].public_id, attempts) = 200

(* C17: a step that answers a request with 400, 404 or 409 changes         *)
(* nothing: the registry, every photo record and the media store are as    *)
(* before it.                                                              *)
C17_RejectedBeforeEffect ==
    [][(resp' # resp /\ resp'.status \in {400, 404, 409}) =>
          /\ registry' = registry
          /\ photos' = photos
          /\ collections' = collections
          /\ dbPhotos' = dbPhotos
          /\ blobs' = blobs]_vars

(* The relational implementation, holding a photo, answered an upload to   *)
(* an unknown collection with 404.                                         *)
C17_Witness ==
    /\ impl = "db" /\ pc = "idle"
    /\ resp.op = "upload_photos" /\ resp.status = 404
    /\ dbPhotos # NoRows

(* C18: in the store-derived implementation, when every call succeeds,     *)
(* bulk-update and bulk-delete act on the photo at position k of the photo *)
(* list for each requested index k with 0 <= k < length, and every other   *)
(* index, a negative one included, changes nothing and is not counted.     *)
C18_IndexInRange ==
    (impl = "store" /\ pc = "idle") =>
        \A ids \in IndexLists :
            LET view == GetPhotosFromCloudinary(photos)
                inRange == {i \in 1..Len(ids) : 0 <= ids[i] /\ ids[i] < Len(view)}
                addressed == {ids[i] + 1 : i \in inRange}
                allOk == [i \in 1..Len(ids) |-> TRUE]
                updated == StoreBulkUpdateLoop(ids, [i \in 1..Len(ids) |-> "ok"], 1,
                               1, <<"A">>, [ps |-> photos, count |-> 0])
                deleted == StoreBulkDeleteLoop(ids, allOk, 1, view,
                               [ps |-> photos, count |-> 0])
            IN /\ updated.count = Cardinality(inRange)
               /\ \A k \in 1..Len(photos) :
                      k \notin addressed => updated.ps[k] = photos[k]
               /\ deleted.count = Cardinality(addressed)
               /\ \A k \in 1..Len(photos) :
                      k \notin addressed =>
                          \E j \in 1..Len(deleted.ps) : deleted.ps[j] = photos[k]

(* C19: in the store-derived implementation no two collections of the     *)
(* registry ever share an id, and a create that directly follows a         *)
(* successful delete never hands out the deleted collection's id while a   *)
(* photo still carries it.                                                 *)
C19_IdsDistinctNeverReused ==
    [][impl = "store" =>
          /\ \A i, j \in 1..Len(registry') :
                 i # j => registry'[i].id # registry'[j].id
          /\ (/\ resp.op = "delete_collection" /\ resp.status = 200
               /\ resp'.op = "create_collection" /\ resp'.status = 200
               /\ resp'.out = resp.arg)
              => \A p \in Listed(GetPhotosFromCloudinary(photos')) :
                     p.collection_id # Str(resp.arg)]_vars

(* C20: in the store-derived implementation, when a create is served      *)
(* while a delete of a collection with another id is in progress and both  *)
(* answer                                                                  *)
(* success, the saved registry holds the created collection and no longer  *)
(* holds the deleted one.                                                  *)
C20_NoLostUpdate ==
    [][(/\ impl = "store" /\ pc = "respond" /\ pc' = "idle"
        /\ resp.op = "create_collection" /\ resp.status = 200
        /\ resp'.op = "delete_collection" /\ resp'.status = 200
        /\ resp.out # resp'.arg)
       => /\ \E i \in 1..Len(registry') : registry'[i].name = Strip(resp.arg)
          /\ \A i \in 1..Len(registry') : registry'[i].id # resp'.arg]_vars

(* C21: in the relational implementation the photo records and the        *)
(* objects of the media store correspond one to one: every record refers   *)
(* to an object the media store holds, no two records refer to the same    *)
(* object, and every object of the media store has a record.               *)
C21_RecordsMatchObjects ==
    impl = "db" =>
        /\ \A p \in DOMAIN dbPhotos : dbPhotos[p].cloudinary_public_id \in blobs
        /\ \A p, q \in DOMAIN dbPhotos :
               p # q => dbPhotos[p].cloudinary_public_id # dbPhotos[q].cloudinary_public_id
        /\ \A b \in blobs :
               \E p \in DOMAIN dbPhotos : dbPhotos[p].cloudinary_public_id = b

====
